---- MODULE Spec2Model ----
(***************************************************************************)
(* Model of the Widevine CDM device/session engine of vinetrimmer          *)
(* (vinetrimmer/utils/widevine/device.py): a LocalDevice built from a      *)
(* device blob, and one license Session driven through                     *)
(* set_service_certificate, get_license_challenge and parse_license.       *)
(*                                                                         *)
(* Byte strings and cryptographic values are symbolic terms: a protobuf    *)
(* message is a record of its fields, a CMAC/HMAC/signature is a record of *)
(* its key and input, a ciphertext is a record of the key it was made      *)
(* under and its plaintext.  Two terms are equal exactly when they were    *)
(* built from equal parts.                                                 *)
(***************************************************************************)
EXTENDS Integers, Sequences, FiniteSets, TLC

\* ------------------------------------------------------------------ bounds
\* largest value of int(time.time()) the clock reaches
MaxTime == 1
\* largest number of Key records a session accumulates
MaxKeys == 2

\* --------------------------------------------------------- python values
\* Python's None
None == [tag |-> "None"]

\* truthiness of an object reference that is either None or an instance of
\* a class without __bool__/__len__ (protobuf messages, RsaKey): only None
\* is falsy, an instance is truthy whatever its fields hold
Truthy(x) == x # None

\* the empty byte string
EmptyBytes == "EMPTY"

\* ------------------------------------------------------- protobuf decode
\* widevine.ClientIdentification().ParseFromString(b): the empty string
\* decodes to a message with no field set, junk raises DecodeError
ParseClientIdentification(b) ==
    CASE b = EmptyBytes -> [ok |-> TRUE, msg |-> [cid |-> "", FileHashes |-> "NONE"]]
      [] b = "JUNK"     -> [ok |-> FALSE, msg |-> [cid |-> "", FileHashes |-> "NONE"]]
      [] OTHER          -> [ok |-> TRUE, msg |-> [cid |-> b, FileHashes |-> "NONE"]]

\* widevine.FileHashes().ParseFromString(b)
ParseFileHashes(b) ==
    IF b = "JUNK" THEN [ok |-> FALSE, msg |-> "NONE"] ELSE [ok |-> TRUE, msg |-> b]

\* RSA.importKey(private_key) if private_key else None
ImportPrivateKey(b) ==
    IF b = EmptyBytes THEN None ELSE [rsa |-> b]

\* ------------------------------------------------------------ LocalDevice
\* the device blobs handed to load: private_key, client_id and vmp bytes
\* and the send_key_control_nonce flag
PrivateKeyBytes == {EmptyBytes, "DK"}
ClientIdBytes == {EmptyBytes, "CID", "JUNK"}
VmpBytes == {EmptyBytes, "VMP"}
Blobs == {b \in [private_key : PrivateKeyBytes, client_id : ClientIdBytes,
                 vmp : VmpBytes, send_key_control_nonce : BOOLEAN] :
             \* a plain blob with or without each part, and the complete
             \* blob with the nonce flag and a VMP block
             \/ (~b.send_key_control_nonce /\ b.vmp = EmptyBytes
                    /\ (b.client_id = "CID" \/ b.private_key = "DK"))
             \/ (b.send_key_control_nonce /\ b.vmp = "VMP"
                    /\ b.private_key = "DK" /\ b.client_id = "CID")}

\* LocalDevice.__init__: the device object, or the ValueError it raises
LocalDevice_init(blob) ==
    LET cid == ParseClientIdentification(blob.client_id)
        vmp == ParseFileHashes(blob.vmp)
    IN  IF ~cid.ok THEN [res |-> "BadClientId", dev |-> None]
        ELSE IF blob.vmp # EmptyBytes /\ ~vmp.ok THEN [res |-> "BadVmp", dev |-> None]
        ELSE [res |-> "ok",
              dev |-> [private_key |-> ImportPrivateKey(blob.private_key),
                       client_id   |-> IF blob.vmp # EmptyBytes
                                       THEN [cid.msg EXCEPT !.FileHashes = vmp.msg]
                                       ELSE cid.msg,
                       vmp         |-> IF blob.vmp # EmptyBytes THEN vmp.msg ELSE "NONE",
                       flags       |-> [send_key_control_nonce |-> blob.send_key_control_nonce]]]


\* whether "import cdmapi" succeeded: the delegated signer / unwrapper
\* (module-level flag cdmapi_supported); its key is CdmapiKey
CdmapiKey == [rsa |-> "CDMAPI"]

\* ---------------------------------------------------------------- Session
\* a fresh Session for one content item: nothing requested, nothing parsed
NewSession(raw, offline) ==
    [session_id |-> "sid", cenc_header |-> "pssh", raw |-> raw, offline |-> offline,
     privacy_mode |-> FALSE, signed_device_certificate |-> None,
     license_request |-> None, signed_license |-> None,
     session_key |-> "NONE", derived_keys |-> << >>, keys |-> << >>]

\* ------------------------------------------------- set_service_certificate
\* certificate bytes, as the SignedMessage / SignedDeviceCertificate they
\* decode to: outer and inner say whether each ParseFromString succeeds
GoodCert == [outer |-> TRUE, inner |-> TRUE, ServiceId |-> "svc",
             SerialNumber |-> "sn", PublicKey |-> "SPK"]
BadKeyCert == [GoodCert EXCEPT !.PublicKey = "JUNK"]
BadInnerCert == [GoodCert EXCEPT !.inner = FALSE]
BadOuterCert == [GoodCert EXCEPT !.outer = FALSE, !.inner = FALSE]
Certificates == {GoodCert, BadKeyCert, BadInnerCert, BadOuterCert}

\* the certificate argument: the bytes, after the base64 decoding a str
\* argument gets first
CertificateArgs == Certificates

\* the SignedDeviceCertificate message parsed out of decodable bytes
SignedDeviceCertificate(c) ==
    [ServiceId |-> c.ServiceId, SerialNumber |-> c.SerialNumber, PublicKey |-> c.PublicKey]

\* set_service_certificate storing the certificate state before the inner
\* device certificate has been decoded
set_service_certificate_early_flip(session, certificate) ==
    LET bytes == certificate
    IN  IF ~bytes.outer THEN [res |-> "MalformedCertificate", session |-> session]
        ELSE IF ~bytes.inner
        THEN [res |-> "MalformedCertificate",
              session |-> [session EXCEPT !.privacy_mode = TRUE]]
        ELSE [res |-> "ok",
              session |-> [session EXCEPT
                             !.signed_device_certificate = SignedDeviceCertificate(bytes),
                             !.privacy_mode = TRUE]]

\* set_service_certificate discarding the pending request when it applies
\* a certificate
set_service_certificate_drop_pending(session, certificate) ==
    LET bytes == certificate
    IN  IF ~bytes.outer THEN [res |-> "MalformedCertificate", session |-> session]
        ELSE IF ~bytes.inner THEN [res |-> "MalformedCertificate", session |-> session]
        ELSE [res |-> "ok",
              session |-> [session EXCEPT
                             !.signed_device_certificate = SignedDeviceCertificate(bytes),
                             !.privacy_mode = TRUE,
                             !.license_request = None]]

\* LocalDevice.set_service_certificate(session, certificate): the result
\* (TRUE as "ok", or the error raised) and the session it leaves
set_service_certificate(session, certificate) ==
    LET bytes == certificate
    IN  IF ~bytes.outer THEN [res |-> "MalformedCertificate", session |-> session]
        ELSE IF ~bytes.inner THEN [res |-> "MalformedCertificate", session |-> session]
        ELSE [res |-> "ok",
              session |-> [session EXCEPT
                             !.signed_device_certificate = SignedDeviceCertificate(bytes),
                             !.privacy_mode = TRUE]]

\* ---------------------------------------------------- get_license_challenge
\* random.randrange(1, 2 ** 31): the two ends of the range
Nonces == {1, 2147483647}
\* get_random_bytes(16) for the privacy key and the IV, and the PSS salt
AesKeys == {"A1"}
Ivs == {"IV1"}
Salts == {"s1"}
Randoms == [nonce : Nonces, cid_aes_key : AesKeys, cid_iv : Ivs, salt : Salts]

\* RSA.importKey of a certificate's public key bytes succeeds
ImportablePublicKey(b) == b # "JUNK"

\* the EncryptedClientIdentification built in privacy mode
EncryptedClientIdentification(client_id, cert, rnd) ==
    [ServiceId |-> cert.ServiceId,
     ServiceCertificateSerialNumber |-> cert.SerialNumber,
     EncryptedClientId |-> [aes |-> rnd.cid_aes_key, iv |-> rnd.cid_iv, plain |-> client_id],
     EncryptedClientIdIv |-> rnd.cid_iv,
     EncryptedPrivacyKey |-> [oaep |-> cert.PublicKey, plain |-> rnd.cid_aes_key]]

\* the request message with the nonce set whatever the flag says
LicenseRequestMsg_always_nonce(self, session, time, rnd) ==
    [Pssh |-> session.cenc_header,
     LicenseType |-> IF session.offline THEN "OFFLINE" ELSE "DEFAULT",
     RequestId |-> session.session_id,
     Type |-> "NEW",
     RequestTime |-> time,
     ProtocolVersion |-> "VERSION_2_1",
     KeyControlNonce |-> {rnd.nonce},
     ClientId |-> None,
     EncryptedClientId |-> None]

\* license_request.Msg up to the client identification
LicenseRequestMsg(self, session, time, rnd) ==
    [Pssh |-> session.cenc_header,
     LicenseType |-> IF session.offline THEN "OFFLINE" ELSE "DEFAULT",
     RequestId |-> session.session_id,
     Type |-> "NEW",
     RequestTime |-> time,
     ProtocolVersion |-> "VERSION_2_1",
     KeyControlNonce |-> IF Truthy(self.flags) /\ self.flags.send_key_control_nonce
                         THEN {rnd.nonce} ELSE {},
     ClientId |-> None,
     EncryptedClientId |-> None]

\* the client identification branch with the plaintext identity copied in
\* before the privacy test
WithClientIdentification_both(msg, self, session, rnd) ==
    IF session.privacy_mode
    THEN [msg EXCEPT !.ClientId = self.client_id,
                     !.EncryptedClientId =
              EncryptedClientIdentification(self.client_id, session.signed_device_certificate, rnd)]
    ELSE [msg EXCEPT !.ClientId = self.client_id]

\* the client identification branch of get_license_challenge
WithClientIdentification(msg, self, session, rnd) ==
    IF session.privacy_mode
    THEN [msg EXCEPT !.EncryptedClientId =
              EncryptedClientIdentification(self.client_id, session.signed_device_certificate, rnd)]
    ELSE [msg EXCEPT !.ClientId = self.client_id]

\* the signature taken over the message as it was before the client
\* identification was copied in
SignRequest_unidentified(self, cdmapi_supported, msg, rnd) ==
    LET early == [msg EXCEPT !.ClientId = None, !.EncryptedClientId = None]
    IN  IF cdmapi_supported /\ ~Truthy(self.private_key)
        THEN [pss |-> CdmapiKey, over |-> early, salt |-> rnd.salt]
        ELSE [pss |-> self.private_key, over |-> early, salt |-> rnd.salt]

\* the RSA-PSS signature over SHA1 of the message, by the device key or by
\* cdmapi when the device has no private key
SignRequest(self, cdmapi_supported, msg, rnd) ==
    IF cdmapi_supported /\ ~Truthy(self.private_key)
    THEN [pss |-> CdmapiKey, over |-> msg, salt |-> rnd.salt]
    ELSE [pss |-> self.private_key, over |-> msg, salt |-> rnd.salt]

\* the signing test with the negation of cdmapi_supported dropped
NoSigningCapability_no_negation(self, cdmapi_supported) ==
    ~Truthy(self.private_key) /\ cdmapi_supported

\* "not self.private_key and not cdmapi_supported"
NoSigningCapability(self, cdmapi_supported) ==
    ~Truthy(self.private_key) /\ ~cdmapi_supported

\* LocalDevice.get_license_challenge(session): result, session left, and
\* the bytes returned (the serialized signed request)
get_license_challenge(self, cdmapi_supported, session, time, rnd) ==
    IF ~Truthy(self.client_id)
    THEN [res |-> "MissingIdentity", session |-> session, out |-> None]
    ELSE IF NoSigningCapability(self, cdmapi_supported)
    THEN [res |-> "MissingSigningCapability", session |-> session, out |-> None]
    ELSE IF session.privacy_mode /\ ~Truthy(session.signed_device_certificate)
    THEN [res |-> "MissingCertificate", session |-> session, out |-> None]
    ELSE IF session.privacy_mode
            /\ ~ImportablePublicKey(session.signed_device_certificate.PublicKey)
    THEN [res |-> "BadPublicKey", session |-> session, out |-> None]
    ELSE LET msg == WithClientIdentification(
                        LicenseRequestMsg(self, session, time, rnd), self, session, rnd)
             license_request ==
                 [kind |-> IF session.raw THEN "SignedLicenseRequestRaw"
                                          ELSE "SignedLicenseRequest",
                  Type |-> "LICENSE_REQUEST",
                  Msg |-> msg,
                  Signature |-> SignRequest(self, cdmapi_supported, msg, rnd)]
         IN  [res |-> "ok",
              session |-> [session EXCEPT !.license_request = license_request],
              out |-> license_request]


\* ------------------------------------------------------------ parse_license
\* the public half of an RSA key is named by the same term as the key
\* PKCS1_OAEP.new(key).decrypt(ct): the plaintext when ct was wrapped to
\* this key, ValueError otherwise
OaepDecrypt(key, ct) ==
    IF ct.oaep = key THEN [ok |-> TRUE, plain |-> ct.plain]
                     ELSE [ok |-> FALSE, plain |-> "NONE"]

\* the length in bytes of one CMAC-AES digest, and of a run of digests
CmacDigestBytes == 16
ByteLen(blocks) == CmacDigestBytes * Len(blocks)

\* get_auth_keys(*i, k=, b=): one CMAC block per index, concatenated
RECURSIVE JoinBlocks(_)
JoinBlocks(parts) ==
    IF parts = << >> THEN << >> ELSE Head(parts) \o JoinBlocks(Tail(parts))

RECURSIVE get_auth_keys(_, _, _)
get_auth_keys(i, k, b) ==
    IF Len(i) > 1
    THEN JoinBlocks([x \in 1..Len(i) |-> get_auth_keys(<<i[x]>>, k, b)])
    ELSE << [cmac |-> k, index |-> i[1], base |-> b] >>

\* enc_key_base / auth_key_base built from the serialized request message
enc_key_base(license_req_msg) ==
    [label |-> "ENCRYPTION", msg |-> license_req_msg, bits |-> 128]
\* the authentication base closed with the size suffix of the encryption one
auth_key_base_enc_suffix(license_req_msg) ==
    [label |-> "AUTHENTICATION", msg |-> license_req_msg, bits |-> 128]

auth_key_base(license_req_msg) ==
    [label |-> "AUTHENTICATION", msg |-> license_req_msg, bits |-> 512]

\* HMAC.new(key, digestmod=SHA256) over a message
HmacSha256(key, msg) == [hmac |-> key, over |-> msg]

\* names of the OperatorSessionKeyPermissions fields, in field order
PermissionFields == <<"AllowEncrypt", "AllowDecrypt">>

\* the permissions list of one key container: the names of the permission
\* fields whose value is 1, for an OPERATOR_SESSION container only
RECURSIVE TruePermissions(_, _)
TruePermissions(perms, fields) ==
    IF fields = << >> THEN << >>
    ELSE (IF perms[Head(fields)] THEN <<Head(fields)>> ELSE << >>)
         \o TruePermissions(perms, Tail(fields))

\* the permissions list collected without looking at the key type
Permissions_any_type(key) ==
    TruePermissions(key.OperatorSessionKeyPermissions, PermissionFields)

Permissions(key) ==
    IF key.Type = "OPERATOR_SESSION"
    THEN TruePermissions(key.OperatorSessionKeyPermissions, PermissionFields)
    ELSE << >>

\* CPadding.unpad(AES.new(enc, CBC, iv).decrypt(ct), 16): the plaintext when
\* ct was made under this key and IV from a padded plaintext, else ValueError
AesCbcUnpad(enc, iv, ct) ==
    IF ct.aes = enc /\ ct.iv = iv /\ ct.padded
    THEN [ok |-> TRUE, plain |-> ct.plain]
    ELSE [ok |-> FALSE, plain |-> "NONE"]

\* str.encode("utf-8"): the bytes of a type name, a value other than the str
Utf8Encode(name) == "utf8:" \o name

\* the Key record that takes its id from the container whatever it holds
KeyOf_no_fallback(key, enc) ==
    [kid |-> key.Id,
     key_type |-> key.Type,
     key |-> AesCbcUnpad(enc, key.Iv, key.Key).plain,
     permissions |-> Permissions(key)]

\* the Key record built from one container
KeyOf(key, enc) ==
    [kid |-> IF key.Id # EmptyBytes THEN key.Id ELSE Utf8Encode(key.Type),
     key_type |-> key.Type,
     key |-> AesCbcUnpad(enc, key.Iv, key.Key).plain,
     permissions |-> Permissions(key)]

\* the loop over signed_license.Msg.Key: session.keys grows by one Key per
\* container until a container fails to decrypt or unpad
RECURSIVE AppendKeys(_, _, _)
AppendKeys(keys, containers, enc) ==
    IF containers = << >> THEN [res |-> "ok", keys |-> keys]
    ELSE IF ~AesCbcUnpad(enc, Head(containers).Iv, Head(containers).Key).ok
    THEN [res |-> "PaddingError", keys |-> keys]
    ELSE AppendKeys(Append(keys, KeyOf(Head(containers), enc)), Tail(containers), enc)

\* the derivation keyed on the whole signed envelope of the request
WithDerivedKeys_envelope(session, signed_license, session_key) ==
    LET license_req_msg == session.license_request
    IN  [session EXCEPT
           !.signed_license = signed_license,
           !.session_key = session_key,
           !.derived_keys =
               [enc    |-> get_auth_keys(<<1>>, session_key, enc_key_base(license_req_msg)),
                auth_1 |-> get_auth_keys(<<1, 2>>, session_key, auth_key_base(license_req_msg)),
                auth_2 |-> get_auth_keys(<<3, 4>>, session_key, auth_key_base(license_req_msg))]]

\* the derivation with auth_2 taken from the single index 3
WithDerivedKeys_short_auth_2(session, signed_license, session_key) ==
    LET license_req_msg == session.license_request.Msg
    IN  [session EXCEPT
           !.signed_license = signed_license,
           !.session_key = session_key,
           !.derived_keys =
               [enc    |-> get_auth_keys(<<1>>, session_key, enc_key_base(license_req_msg)),
                auth_1 |-> get_auth_keys(<<1, 2>>, session_key, auth_key_base(license_req_msg)),
                auth_2 |-> get_auth_keys(<<3>>, session_key, auth_key_base(license_req_msg))]]

\* the session after lines 297-316: the response and the session key are
\* stored, the three derived keys are computed from the pending request
WithDerivedKeys(session, signed_license, session_key) ==
    LET license_req_msg == session.license_request.Msg
    IN  [session EXCEPT
           !.signed_license = signed_license,
           !.session_key = session_key,
           !.derived_keys =
               [enc    |-> get_auth_keys(<<1>>, session_key, enc_key_base(license_req_msg)),
                auth_1 |-> get_auth_keys(<<1, 2>>, session_key, auth_key_base(license_req_msg)),
                auth_2 |-> get_auth_keys(<<3, 4>>, session_key, auth_key_base(license_req_msg))]]

\* parse_license comparing the signature only after the key loop
parse_license_late_check(self, cdmapi_supported, session, license_res) ==
    IF ~Truthy(session.license_request)
    THEN [res |-> "NoPendingRequest", session |-> session]
    ELSE IF ~license_res.decodable
    THEN [res |-> "MalformedResponse", session |-> session]
    ELSE
    LET signed_license == [SessionKey |-> license_res.SessionKey,
                           Msg |-> license_res.Msg,
                           Signature |-> license_res.Signature]
        stored == [session EXCEPT !.signed_license = signed_license]
        unwrap == IF cdmapi_supported /\ ~Truthy(self.private_key)
                  THEN OaepDecrypt(CdmapiKey, signed_license.SessionKey)
                  ELSE OaepDecrypt(self.private_key, signed_license.SessionKey)
    IN  IF ~unwrap.ok THEN [res |-> "DecryptError", session |-> stored]
        ELSE
        LET derived == WithDerivedKeys(session, signed_license, unwrap.plain)
            loop == AppendKeys(derived.keys, signed_license.Msg.Key, derived.derived_keys.enc)
        IN  IF loop.res # "ok"
            THEN [res |-> loop.res, session |-> [derived EXCEPT !.keys = loop.keys]]
            ELSE IF HmacSha256(derived.derived_keys.auth_1, signed_license.Msg)
                      # signed_license.Signature
            THEN [res |-> "SignatureMismatch", session |-> [derived EXCEPT !.keys = loop.keys]]
            ELSE [res |-> "ok", session |-> [derived EXCEPT !.keys = loop.keys]]

\* parse_license decoding the response before it looks for the request
parse_license_decode_first(self, cdmapi_supported, session, license_res) ==
    IF ~license_res.decodable
    THEN [res |-> "MalformedResponse", session |-> session]
    ELSE IF ~Truthy(session.license_request)
    THEN [res |-> "NoPendingRequest",
          session |-> [session EXCEPT !.signed_license =
                          [SessionKey |-> license_res.SessionKey,
                           Msg |-> license_res.Msg,
                           Signature |-> license_res.Signature]]]
    ELSE
    LET signed_license == [SessionKey |-> license_res.SessionKey,
                           Msg |-> license_res.Msg,
                           Signature |-> license_res.Signature]
        stored == [session EXCEPT !.signed_license = signed_license]
        unwrap == IF cdmapi_supported /\ ~Truthy(self.private_key)
                  THEN OaepDecrypt(CdmapiKey, signed_license.SessionKey)
                  ELSE OaepDecrypt(self.private_key, signed_license.SessionKey)
    IN  IF ~unwrap.ok THEN [res |-> "DecryptError", session |-> stored]
        ELSE
        LET derived == WithDerivedKeys(session, signed_license, unwrap.plain)
            loop == AppendKeys(derived.keys, signed_license.Msg.Key, derived.derived_keys.enc)
        IN  IF HmacSha256(derived.derived_keys.auth_1, signed_license.Msg)
                  # signed_license.Signature
            THEN [res |-> "SignatureMismatch", session |-> derived]
            ELSE [res |-> loop.res, session |-> [derived EXCEPT !.keys = loop.keys]]

\* parse_license dropping the pending request when the response does not
\* decode
parse_license_drop_pending(self, cdmapi_supported, session, license_res) ==
    IF ~Truthy(session.license_request)
    THEN [res |-> "NoPendingRequest", session |-> session]
    ELSE IF ~license_res.decodable
    THEN [res |-> "MalformedResponse",
          session |-> [session EXCEPT !.license_request = None]]
    ELSE
    LET signed_license == [SessionKey |-> license_res.SessionKey,
                           Msg |-> license_res.Msg,
                           Signature |-> license_res.Signature]
        stored == [session EXCEPT !.signed_license = signed_license]
        unwrap == IF cdmapi_supported /\ ~Truthy(self.private_key)
                  THEN OaepDecrypt(CdmapiKey, signed_license.SessionKey)
                  ELSE OaepDecrypt(self.private_key, signed_license.SessionKey)
    IN  IF ~unwrap.ok THEN [res |-> "DecryptError", session |-> stored]
        ELSE
        LET derived == WithDerivedKeys(session, signed_license, unwrap.plain)
            loop == AppendKeys(derived.keys, signed_license.Msg.Key, derived.derived_keys.enc)
        IN  IF HmacSha256(derived.derived_keys.auth_1, signed_license.Msg)
                  # signed_license.Signature
            THEN [res |-> "SignatureMismatch", session |-> derived]
            ELSE [res |-> loop.res, session |-> [derived EXCEPT !.keys = loop.keys]]

\* LocalDevice.parse_license(session, license_res): the result and the
\* session it leaves.  license_res is the bytes after the optional base64
\* decoding of a str argument.
parse_license(self, cdmapi_supported, session, license_res) ==
    IF ~Truthy(session.license_request)
    THEN [res |-> "NoPendingRequest", session |-> session]
    ELSE IF ~license_res.decodable
    THEN [res |-> "MalformedResponse", session |-> session]
    ELSE
    LET signed_license == [SessionKey |-> license_res.SessionKey,
                           Msg |-> license_res.Msg,
                           Signature |-> license_res.Signature]
        stored == [session EXCEPT !.signed_license = signed_license]
        unwrap == IF cdmapi_supported /\ ~Truthy(self.private_key)
                  THEN OaepDecrypt(CdmapiKey, signed_license.SessionKey)
                  ELSE OaepDecrypt(self.private_key, signed_license.SessionKey)
    IN  IF ~unwrap.ok THEN [res |-> "DecryptError", session |-> stored]
        ELSE
        LET derived == WithDerivedKeys(session, signed_license, unwrap.plain)
            loop == AppendKeys(derived.keys, signed_license.Msg.Key, derived.derived_keys.enc)
        IN  IF HmacSha256(derived.derived_keys.auth_1, signed_license.Msg)
                  # signed_license.Signature
            THEN [res |-> "SignatureMismatch", session |-> derived]
            ELSE [res |-> loop.res, session |-> [derived EXCEPT !.keys = loop.keys]]


\* -------------------------------------------------------- license server
\* generate_derived_keys(msg, key) of the provisioning script: the reference
\* derivation a license server runs on the request it received
generate_derived_keys(msg, key) ==
    LET enc_base == [label |-> "ENCRYPTION", msg |-> msg, bits |-> 128]
        auth_base == [label |-> "AUTHENTICATION", msg |-> msg, bits |-> 512]
        enc_cmac_key    == << [cmac |-> key, index |-> 1, base |-> enc_base] >>
        auth_cmac_key_1 == << [cmac |-> key, index |-> 1, base |-> auth_base] >>
        auth_cmac_key_2 == << [cmac |-> key, index |-> 2, base |-> auth_base] >>
        auth_cmac_key_3 == << [cmac |-> key, index |-> 3, base |-> auth_base] >>
        auth_cmac_key_4 == << [cmac |-> key, index |-> 4, base |-> auth_base] >>
    IN  [enc |-> enc_cmac_key,
         auth_1 |-> auth_cmac_key_1 \o auth_cmac_key_2,
         auth_2 |-> auth_cmac_key_3 \o auth_cmac_key_4]

\* the key containers a server puts in a license: a CONTENT key with an id
\* (and stray permission bits), an OPERATOR_SESSION key without an id, and a
\* CONTENT key whose ciphertext does not unpad
ContainerKinds == {"content", "operator", "badpad"}
WellFormedKinds == {"content", "operator"}

KeyContainer(kind, enc) ==
    CASE kind = "content" ->
           [Id |-> "kid1", Type |-> "CONTENT", Iv |-> "iv1",
            Key |-> [aes |-> enc, iv |-> "iv1", plain |-> "ck1", padded |-> TRUE],
            OperatorSessionKeyPermissions |-> [AllowEncrypt |-> TRUE, AllowDecrypt |-> FALSE]]
      [] kind = "operator" ->
           [Id |-> EmptyBytes, Type |-> "OPERATOR_SESSION", Iv |-> "iv2",
            Key |-> [aes |-> enc, iv |-> "iv2", plain |-> "ok2", padded |-> TRUE],
            OperatorSessionKeyPermissions |-> [AllowEncrypt |-> FALSE, AllowDecrypt |-> TRUE]]
      [] OTHER ->
           [Id |-> "kid3", Type |-> "CONTENT", Iv |-> "iv3",
            Key |-> [aes |-> enc, iv |-> "iv3", plain |-> "ck3", padded |-> FALSE],
            OperatorSessionKeyPermissions |-> [AllowEncrypt |-> FALSE, AllowDecrypt |-> FALSE]]

\* the container lists of the licenses a server issues, and of the ones
\* that are tampered with or built for another request
Licenses == {<< >>, <<"content">>, <<"operator", "content">>, <<"content", "badpad">>}
OtherLicenses == {<<"content">>}

SessionKeys == {"SK1"}

\* the response a server builds for a request: the session key wrapped to
\* the key that signed the request, the containers encrypted under enc, the
\* message signed with HMAC-SHA256 under auth_1
FakeServer(request, session_key, kinds) ==
    LET derived == generate_derived_keys(request.Msg, session_key)
        msg == [Key |-> [i \in 1..Len(kinds) |-> KeyContainer(kinds[i], derived.enc)]]
    IN  [decodable |-> TRUE,
         SessionKey |-> [oaep |-> request.Signature.pss, plain |-> session_key],
         Msg |-> msg,
         Signature |-> HmacSha256(derived.auth_1, msg)]

\* a response altered on the way: a flipped signature bit, or a session key
\* re-wrapped to another RSA key
Tampers == {"signature", "session_key"}
Tamper(response, how) ==
    IF how = "signature"
    THEN [response EXCEPT !.Signature = [flipped |-> response.Signature]]
    ELSE [response EXCEPT !.SessionKey = [oaep |-> [rsa |-> "OTHER"], plain |-> response.SessionKey.plain]]

\* bytes that do not decode as a SignedLicense
JunkResponse ==
    [decodable |-> FALSE, SessionKey |-> None, Msg |-> [Key |-> << >>], Signature |-> None]

\* a request of the same device for another session
ForeignRequest(self, cdmapi_supported) ==
    LET msg == [Pssh |-> "pssh2", LicenseType |-> "DEFAULT", RequestId |-> "sid2",
                Type |-> "NEW", RequestTime |-> 0, ProtocolVersion |-> "VERSION_2_1",
                KeyControlNonce |-> {}, ClientId |-> self.client_id,
                EncryptedClientId |-> None]
    IN  [kind |-> "SignedLicenseRequest", Type |-> "LICENSE_REQUEST", Msg |-> msg,
         Signature |-> SignRequest(self, cdmapi_supported, msg, [salt |-> "s1"])]

\* the responses handed to parse_license: every untampered response to the
\* pending request, and short responses that are tampered with, built for
\* another request, or junk
Responses(self, cdmapi_supported, session) ==
    LET pending == IF Truthy(session.license_request) THEN {session.license_request} ELSE {}
        foreign == {ForeignRequest(self, cdmapi_supported)}
    IN  {JunkResponse}
        \cup {FakeServer(r, sk, k) : r \in pending, sk \in SessionKeys, k \in Licenses}
        \cup {FakeServer(r, sk, k) : r \in foreign, sk \in SessionKeys, k \in OtherLicenses}
        \cup {Tamper(FakeServer(r, sk, k), t) :
                r \in pending, sk \in SessionKeys, k \in OtherLicenses, t \in Tampers}

\* ----------------------------------------------------------- RemoteDevice
\* base64.b64encode(b).decode() and base64.b64decode(s) on symbolic bytes
B64Encode(b) == [b64 |-> b]
B64Decode(t) == t.b64

\* true for bytes, false for the str that base64 text is
IsBytes(x) == "b64" \notin DOMAIN x

\* the descriptor a RemoteDevice is constructed from
RemoteDescriptor ==
    [type |-> "CHROME", system_id |-> "sysid", security_level |-> "L3", name |-> "remote",
     host |-> "https://cdm.example", key |-> "token", device |-> "devname"]

\* RemoteDevice.__init__
RemoteDevice_init(d) ==
    [type |-> d.type, system_id |-> d.system_id, security_level |-> d.security_level,
     name |-> d.name, host |-> d.host, key |-> d.key, device |-> d.device,
     api_session_id |-> {}]

\* the class of a device object decides which methods a call runs
IsRemote(self) == "host" \in DOMAIN self

\* the remote key-exchange service: the init data of every API session it
\* has opened, in the order of their ids 1, 2, ...
NewDelegate == [content |-> << >>]

\* largest number of API sessions the service opens
MaxApiSessions == 2

\* how one round trip to the service ends: "ok" is a well-formed answer with
\* status 200, "error" an answer with another status, "partial" and "empty"
\* are status 200 answers whose message lacks the last or every expected
\* field, "abandoned" is a call that does not return an answer
Answers == {"ok", "error", "partial", "empty", "abandoned"}

\* the answer of the service to one posted request, and the service after it
DelegateAnswer(d, method, params, answer) ==
    LET known == \E id \in params.session_id : id \in 1..Len(d.content)
        blank == [session_id |-> {}, has_challenge |-> FALSE, challenge |-> None,
                  has_keys |-> FALSE, keys |-> << >>, has_pair |-> FALSE]
    IN  IF answer = "abandoned"
        THEN [raised |-> "Abandoned", status_code |-> 0, message |-> blank, delegate |-> d]
        ELSE IF answer = "error"
        THEN [raised |-> "", status_code |-> 500, message |-> blank, delegate |-> d]
        ELSE IF answer = "empty"
        THEN [raised |-> "", status_code |-> 200, message |-> blank, delegate |-> d]
        ELSE IF method = "GetChallenge"
        THEN LET id == Len(d.content) + 1
             IN  [raised |-> "", status_code |-> 200,
                  message |-> [blank EXCEPT
                      !.session_id = {id},
                      !.has_challenge = (answer = "ok"),
                      !.challenge = B64Encode([challenge_of |-> id, init |-> params.init,
                                               cert |-> params.cert])],
                  delegate |-> [d EXCEPT !.content = Append(d.content, params.init)]]
        ELSE IF ~known
        THEN [raised |-> "", status_code |-> 400, message |-> blank, delegate |-> d]
        ELSE LET id == CHOOSE x \in params.session_id : TRUE
             IN  [raised |-> "", status_code |-> 200,
                  message |-> [blank EXCEPT
                      !.has_keys = TRUE,
                      !.keys = << [kid |-> [hex |-> (answer = "ok"), of |-> d.content[id]],
                                   key |-> [hex |-> TRUE, of |-> d.content[id]]] >>,
                      !.has_pair = (method = "GetKeysX" /\ answer = "ok")],
                  delegate |-> d]

\* RemoteDevice.session(method, params): post the request; the message of a
\* status 200 answer, or the error raised
RemoteDevice_session(self, d, method, params, answer) ==
    LET res == DelegateAnswer(d, method, params, answer)
        sent == << [host |-> self.host, method |-> method, params |-> params,
                    token |-> self.key] >>
    IN  IF res.raised # ""
        THEN [raised |-> res.raised, message |-> res.message, delegate |-> res.delegate,
              sent |-> sent]
        ELSE IF res.status_code # 200
        THEN [raised |-> "ApiError", message |-> res.message, delegate |-> res.delegate,
              sent |-> sent]
        ELSE [raised |-> "", message |-> res.message, delegate |-> res.delegate,
              sent |-> sent]

\* the certificate handed to RemoteDevice.set_service_certificate: bytes
\* or a str of base64 text
RemoteCertificateArgs == {[bytes |-> "cert"], B64Encode("cert")}

\* set_service_certificate storing the certificate without the privacy flag
remote_set_service_certificate_no_flag(session, certificate) ==
    LET stored == IF IsBytes(certificate) THEN B64Encode(certificate.bytes) ELSE certificate
    IN  [res |-> "ok",
         session |-> [session EXCEPT !.signed_device_certificate = stored]]

\* set_service_certificate storing the certificate as it was handed in
remote_set_service_certificate_raw(session, certificate) ==
    [res |-> "ok",
     session |-> [session EXCEPT !.signed_device_certificate = certificate,
                                 !.privacy_mode = TRUE]]

\* RemoteDevice.set_service_certificate(session, certificate)
remote_set_service_certificate(session, certificate) ==
    LET stored == IF IsBytes(certificate) THEN B64Encode(certificate.bytes) ELSE certificate
    IN  [res |-> "ok",
         session |-> [session EXCEPT !.signed_device_certificate = stored,
                                     !.privacy_mode = TRUE]]

\* RemoteDevice.get_license_challenge(session): the init data goes out as
\* base64 text; the API session id of the answer is kept on the device
remote_get_license_challenge(self, d, session, answer) ==
    LET params == [init |-> B64Encode(session.cenc_header),
                   cert |-> session.signed_device_certificate,
                   raw |-> session.raw,
                   licensetype |-> IF session.offline THEN "OFFLINE" ELSE "STREAMING",
                   device |-> self.device]
        call == RemoteDevice_session(self, d, "GetChallenge", params, answer)
        kept == [self EXCEPT !.api_session_id = call.message.session_id]
    IN  IF call.raised # ""
        THEN [res |-> call.raised, self |-> self, delegate |-> call.delegate,
              out |-> None, sent |-> call.sent]
        ELSE IF call.message.session_id = {}
        THEN [res |-> "KeyError", self |-> self, delegate |-> call.delegate,
              out |-> None, sent |-> call.sent]
        ELSE IF ~call.message.has_challenge
        THEN [res |-> "KeyError", self |-> kept, delegate |-> call.delegate,
              out |-> None, sent |-> call.sent]
        ELSE [res |-> "ok", self |-> kept, delegate |-> call.delegate,
              out |-> B64Decode(call.message.challenge), sent |-> call.sent]

\* the Key built from one entry of the answer's key list
RemoteKey(x) ==
    [kid |-> x.kid.of, key_type |-> "CONTENT", key |-> x.key.of, permissions |-> << >>]

\* RemoteDevice.parse_license(session, license_res): the keys of the answer
\* are appended in one extend once every entry has been converted
remote_parse_license(self, d, session, license_res, answer) ==
    LET params == [cdmkeyresponse |-> B64Encode(license_res),
                   session_id |-> self.api_session_id]
        call == RemoteDevice_session(self, d, "GetKeys", params, answer)
    IN  IF call.raised # ""
        THEN [res |-> call.raised, session |-> session, delegate |-> call.delegate,
              sent |-> call.sent]
        ELSE IF ~call.message.has_keys
        THEN [res |-> "KeyError", session |-> session, delegate |-> call.delegate,
              sent |-> call.sent]
        ELSE IF \E i \in 1..Len(call.message.keys) : ~call.message.keys[i].kid.hex
        THEN [res |-> "ValueError", session |-> session, delegate |-> call.delegate,
              sent |-> call.sent]
        ELSE [res |-> "ok",
              session |-> [session EXCEPT !.keys =
                              @ \o [i \in 1..Len(call.message.keys) |->
                                        RemoteKey(call.message.keys[i])]],
              delegate |-> call.delegate, sent |-> call.sent]

\* RemoteDevice.exchange(session, license_res, enc_key_id, hmac_key_id)
remote_exchange(self, d, session, license_res, enc_key_id, hmac_key_id, answer) ==
    LET params == [cdmkeyresponse |-> B64Encode(license_res),
                   encryptionkeyid |-> B64Encode(enc_key_id),
                   hmackeyid |-> B64Encode(hmac_key_id),
                   session_id |-> self.api_session_id]
        call == RemoteDevice_session(self, d, "GetKeysX", params, answer)
    IN  IF call.raised # ""
        THEN [res |-> call.raised, out |-> None, delegate |-> call.delegate,
              sent |-> call.sent]
        ELSE IF ~call.message.has_pair
        THEN [res |-> "KeyError", out |-> None, delegate |-> call.delegate,
              sent |-> call.sent]
        ELSE [res |-> "ok",
              out |-> [encryption_key |-> enc_key_id, sign_key |-> hmac_key_id],
              delegate |-> call.delegate, sent |-> call.sent]

\* ------------------------------------------------------------ the program
VARIABLES
    cdmapi_supported,   \* whether the cdmapi module was imported
    device,             \* the LocalDevice, None until load returns one
    session,            \* the Session the caller drives
    last,               \* the last call: operation, argument, result, output
    issued,             \* history: a get_license_challenge on the session has returned
    delegate,           \* the remote key-exchange service a RemoteDevice calls
    ghost               \* history kept for the shared-device runs

vars == <<cdmapi_supported, device, session, last, issued, delegate, ghost>>

\* the two runs explored: a build without cdmapi driving a parsed, streaming
\* session, and a build with cdmapi driving a raw, offline session
Builds == {[cdmapi_supported |-> FALSE, raw |-> FALSE, offline |-> FALSE],
           [cdmapi_supported |-> TRUE, raw |-> TRUE, offline |-> TRUE]}

Times == 0..MaxTime

Init ==
    /\ \E b \in Builds : /\ cdmapi_supported = b.cdmapi_supported
                         /\ session = NewSession(b.raw, b.offline)
    /\ device = None
    /\ last = [op |-> "init", res |-> "ok", arg |-> None, out |-> None]
    /\ issued = FALSE
    /\ delegate = None
    /\ ghost = None

\* LocalDevice.load(bytes): parse the blob and construct the device
load(blob) ==
    /\ last.op = "init"
    /\ LET r == LocalDevice_init(blob)
       IN  /\ device' = r.dev
           /\ last' = [op |-> "load", res |-> r.res, arg |-> blob, out |-> None]
    /\ UNCHANGED <<cdmapi_supported, session, issued, delegate, ghost>>

SetServiceCertificate(certificate) ==
    /\ Truthy(device)
    /\ LET r == set_service_certificate(session, certificate)
       IN  /\ session' = r.session
           /\ last' = [op |-> "set_service_certificate", res |-> r.res,
                       arg |-> certificate, out |-> None]
    /\ UNCHANGED <<cdmapi_supported, device, issued, delegate, ghost>>

GetLicenseChallenge(time, rnd) ==
    /\ Truthy(device)
    /\ LET r == get_license_challenge(device, cdmapi_supported, session, time, rnd)
       IN  /\ session' = r.session
           /\ last' = [op |-> "get_license_challenge", res |-> r.res,
                       arg |-> None, out |-> r.out]
           /\ issued' = (issued \/ r.res = "ok")
    /\ UNCHANGED <<cdmapi_supported, device, delegate, ghost>>

ParseLicense(license_res) ==
    /\ Truthy(device)
    /\ Len(session.keys) + Len(license_res.Msg.Key) <= MaxKeys
    /\ LET r == parse_license(device, cdmapi_supported, session, license_res)
       IN  /\ session' = r.session
           /\ last' = [op |-> "parse_license", res |-> r.res,
                       arg |-> license_res, out |-> None]
    /\ UNCHANGED <<cdmapi_supported, device, issued, delegate, ghost>>

Next ==
    \/ \E blob \in Blobs : load(blob)
    \/ \E certificate \in CertificateArgs : SetServiceCertificate(certificate)
    \/ \E time \in Times, rnd \in Randoms : GetLicenseChallenge(time, rnd)
    \/ /\ Truthy(device)
       /\ \E license_res \in Responses(device, cdmapi_supported, session) :
              ParseLicense(license_res)

Spec == Init /\ [][Next]_vars


\* ------------------------------------------------ one device, two sessions
\* two Sessions the caller drives against the one device object
Sids == {"A", "B"}
Other(s) == CHOOSE t \in Sids : t # s

\* the Session of content item s
SharedSession(s) ==
    [NewSession(FALSE, FALSE) EXCEPT !.session_id = [sid |-> s],
                                     !.cenc_header = [pssh |-> s]]

\* the blob of the shared LocalDevice: a private key and a client id
SharedBlob ==
    [private_key |-> "DK", client_id |-> "CID", vmp |-> EmptyBytes,
     send_key_control_nonce |-> FALSE]

\* certificates, clock readings and responses handed to the shared LocalDevice
SharedCertificates == {GoodCert, BadInnerCert}
SharedTimes == {t \in Times : t = 0}
SharedRandoms == {r \in Randoms : r.nonce = 1}
SharedResponses(self, requests) ==
    {JunkResponse}
    \cup {FakeServer(r, sk, k) : r \in {q \in requests : Truthy(q)},
                                 sk \in SessionKeys, k \in OtherLicenses}

\* response bytes and key ids handed to the RemoteDevice
RemoteResponses == {"license"}
KeyIds == {"kid1"}

\* a call on session s whose writes land on the other session
SessionWrite_other(sessions, s, new) == [sessions EXCEPT ![Other(s)] = new]

\* the sessions after a call on session s has left it as new
SessionWrite(sessions, s, new) == [sessions EXCEPT ![s] = new]

SharedInit ==
    /\ cdmapi_supported = FALSE
    /\ device \in {LocalDevice_init(SharedBlob).dev, RemoteDevice_init(RemoteDescriptor)}
    /\ session = [s \in Sids |-> SharedSession(s)]
    /\ last = [op |-> "init", sid |-> "", res |-> "ok", arg |-> None, out |-> None,
               sent |-> << >>]
    /\ issued = FALSE
    /\ delegate = NewDelegate
    /\ ghost = [solo |-> [s \in Sids |-> SharedSession(s)], own |-> [s \in Sids |-> {}]]

\* device.set_service_certificate(session s, certificate) on a LocalDevice
LocalSetServiceCertificate(s, certificate) ==
    /\ ~IsRemote(device)
    /\ LET r == set_service_certificate(session[s], certificate)
           alone == set_service_certificate(ghost.solo[s], certificate)
       IN  /\ session' = SessionWrite(session, s, r.session)
           /\ ghost' = [ghost EXCEPT !.solo[s] = alone.session]
           /\ last' = [op |-> "set_service_certificate", sid |-> s, res |-> r.res,
                       arg |-> certificate, out |-> None, sent |-> << >>]
    /\ UNCHANGED <<cdmapi_supported, device, issued, delegate>>

\* device.get_license_challenge(session s) on a LocalDevice
LocalGetLicenseChallenge(s, time, rnd) ==
    /\ ~IsRemote(device)
    /\ LET r == get_license_challenge(device, cdmapi_supported, session[s], time, rnd)
           alone == get_license_challenge(device, cdmapi_supported, ghost.solo[s], time, rnd)
       IN  /\ session' = SessionWrite(session, s, r.session)
           /\ ghost' = [ghost EXCEPT !.solo[s] = alone.session]
           /\ last' = [op |-> "get_license_challenge", sid |-> s, res |-> r.res,
                       arg |-> None, out |-> r.out, sent |-> << >>]
    /\ UNCHANGED <<cdmapi_supported, device, issued, delegate>>

\* device.parse_license(session s, license_res) on a LocalDevice
LocalParseLicense(s, license_res) ==
    /\ ~IsRemote(device)
    /\ Len(session[s].keys) + Len(license_res.Msg.Key) <= MaxKeys
    /\ LET r == parse_license(device, cdmapi_supported, session[s], license_res)
           alone == parse_license(device, cdmapi_supported, ghost.solo[s], license_res)
       IN  /\ session' = SessionWrite(session, s, r.session)
           /\ ghost' = [ghost EXCEPT !.solo[s] = alone.session]
           /\ last' = [op |-> "parse_license", sid |-> s, res |-> r.res,
                       arg |-> license_res, out |-> None, sent |-> << >>]
    /\ UNCHANGED <<cdmapi_supported, device, issued, delegate>>

\* device.set_service_certificate(session s, certificate) on a RemoteDevice
RemoteSetServiceCertificate(s, certificate) ==
    /\ IsRemote(device)
    /\ LET r == remote_set_service_certificate(session[s], certificate)
       IN  /\ session' = SessionWrite(session, s, r.session)
           /\ last' = [op |-> "set_service_certificate", sid |-> s, res |-> r.res,
                       arg |-> certificate, out |-> None, sent |-> << >>]
    /\ UNCHANGED <<cdmapi_supported, device, issued, delegate, ghost>>

\* device.get_license_challenge(session s) on a RemoteDevice
RemoteGetLicenseChallenge(s, answer) ==
    /\ IsRemote(device)
    /\ Len(delegate.content) < MaxApiSessions
    /\ LET r == remote_get_license_challenge(device, delegate, session[s], answer)
       IN  /\ device' = r.self
           /\ delegate' = r.delegate
           /\ ghost' = IF r.res = "ok"
                       THEN [ghost EXCEPT !.own[s] = r.self.api_session_id]
                       ELSE ghost
           /\ last' = [op |-> "get_license_challenge", sid |-> s, res |-> r.res,
                       arg |-> None, out |-> r.out, sent |-> r.sent]
    /\ UNCHANGED <<cdmapi_supported, session, issued>>

\* device.parse_license(session s, license_res) on a RemoteDevice
RemoteParseLicense(s, license_res, answer) ==
    /\ IsRemote(device)
    /\ Len(session[s].keys) + Len(session[Other(s)].keys) < MaxKeys
    /\ LET r == remote_parse_license(device, delegate, session[s], license_res, answer)
       IN  /\ session' = SessionWrite(session, s, r.session)
           /\ delegate' = r.delegate
           /\ last' = [op |-> "parse_license", sid |-> s, res |-> r.res,
                       arg |-> [bytes |-> license_res], out |-> None, sent |-> r.sent]
    /\ UNCHANGED <<cdmapi_supported, device, issued, ghost>>

\* device.exchange(session s, license_res, enc_key_id, hmac_key_id)
RemoteExchange(s, license_res, enc_key_id, hmac_key_id, answer) ==
    /\ IsRemote(device)
    /\ LET r == remote_exchange(device, delegate, session[s], license_res,
                                enc_key_id, hmac_key_id, answer)
       IN  /\ delegate' = r.delegate
           /\ last' = [op |-> "exchange", sid |-> s, res |-> r.res,
                       arg |-> [bytes |-> license_res], out |-> r.out, sent |-> r.sent]
    /\ UNCHANGED <<cdmapi_supported, device, session, issued, ghost>>

SharedNext ==
    \/ \E s \in Sids, certificate \in SharedCertificates :
           LocalSetServiceCertificate(s, certificate)
    \/ \E s \in Sids, time \in SharedTimes, rnd \in SharedRandoms :
           LocalGetLicenseChallenge(s, time, rnd)
    \/ /\ ~IsRemote(device)
       /\ \E s \in Sids :
            \E license_res \in SharedResponses(device, {session[t].license_request : t \in Sids}) :
                LocalParseLicense(s, license_res)
    \/ \E s \in Sids, certificate \in RemoteCertificateArgs :
           RemoteSetServiceCertificate(s, certificate)
    \/ \E s \in Sids, answer \in Answers : RemoteGetLicenseChallenge(s, answer)
    \/ \E s \in Sids, license_res \in RemoteResponses, answer \in Answers :
           RemoteParseLicense(s, license_res, answer)
    \/ \E s \in Sids, license_res \in RemoteResponses, k \in KeyIds, answer \in Answers :
           RemoteExchange(s, license_res, k, k, answer)

SpecShared == SharedInit /\ [][SharedNext]_vars

\* ------------------------------------------------------ load and dumpb
\* WidevineDeviceStructVersion, the version dumpb writes
WidevineDeviceStructVersion == 1

\* BaseDevice.Types: the name of a type byte and the value of a name
TypeName(v) == IF v = 1 THEN "CHROME" ELSE "ANDROID"
TypeValue(n) == IF n = "CHROME" THEN 1 ELSE 2

\* the bytes of a device file, field by field as WidevineDeviceStruct lays
\* them out: vmp is "ABSENT" when the file ends after client_id
WireBlobs ==
    [signature : {"WVD", "XXX"}, version : {1, 2}, type : {1, 2}, security_level : {1, 3},
     flags : {0, 1}, private_key : PrivateKeyBytes, client_id : {"CID", "JUNK"},
     vmp : {"ABSENT", EmptyBytes, "VMP"}]

\* WidevineDeviceStruct.parse(b): the Container of fields, or ConstError on
\* another signature; an absent or empty VMP block parses to no vmp
ParseStruct(b) ==
    [ok |-> b.signature = "WVD",
     version |-> b.version,
     type |-> TypeName(b.type),
     security_level |-> b.security_level,
     flags |-> [send_key_control_nonce |-> (b.flags % 2 = 1)],
     private_key |-> b.private_key,
     client_id |-> b.client_id,
     vmp |-> IF b.vmp = "ABSENT" THEN EmptyBytes ELSE b.vmp]

\* cls(**fields): signature and version are swallowed by **__
Construct(b) ==
    LET p == ParseStruct(b)
        r == LocalDevice_init([private_key |-> p.private_key, client_id |-> p.client_id,
                               vmp |-> p.vmp,
                               send_key_control_nonce |-> p.flags.send_key_control_nonce])
    IN  IF ~p.ok THEN [res |-> "ConstError", dev |-> None]
        ELSE IF r.res # "ok" THEN [res |-> r.res, dev |-> None]
        ELSE [res |-> "ok",
              dev |-> [type |-> p.type, security_level |-> p.security_level,
                       flags |-> r.dev.flags, private_key |-> r.dev.private_key,
                       client_id |-> r.dev.client_id, vmp |-> r.dev.vmp]]

\* what load is handed: bytes, a str that validates as a URL, or any other
\* str, taken as a path; data is what the bytes, the URL or the file hold,
\* found whether the URL or the file can be read
Uris ==
    {u \in [kind : {"bytes", "url", "path"}, data : WireBlobs, found : BOOLEAN] :
        u.kind = "bytes" => u.found}

\* LocalDevice.load(uri): the device it returns and the requests it made
LocalDevice_load(uri) ==
    IF uri.kind = "bytes"
    THEN [res |-> Construct(uri.data).res, dev |-> Construct(uri.data).dev, sent |-> << >>]
    ELSE IF uri.kind = "url"
    THEN LET sent == << [method |-> "GET", url |-> "uri"] >>
         IN  IF ~uri.found THEN [res |-> "RequestError", dev |-> None, sent |-> sent]
             ELSE [res |-> Construct(uri.data).res, dev |-> Construct(uri.data).dev,
                   sent |-> sent]
    ELSE IF ~uri.found THEN [res |-> "FileNotFound", dev |-> None, sent |-> << >>]
         ELSE [res |-> Construct(uri.data).res, dev |-> Construct(uri.data).dev,
               sent |-> << >>]

\* private_key.export_key("DER") of an imported key
ExportKey(k) == k.rsa

\* SerializeToString of a ClientIdentification and of a FileHashes
SerializeClientIdentification(m) ==
    IF m.FileHashes = "NONE"
    THEN (IF m.cid = "" THEN EmptyBytes ELSE m.cid)
    ELSE m.cid \o "+" \o m.FileHashes
SerializeFileHashes(m) == IF m = "NONE" THEN EmptyBytes ELSE m

\* LocalDevice.dumpb(): the bytes WidevineDeviceStruct.build writes; a
\* device without private key hands None to Bytes(0), which raises
dumpb(self) ==
    IF ~Truthy(self.private_key)
    THEN [res |-> "BuildError", out |-> None]
    ELSE [res |-> "ok",
          out |-> [signature |-> "WVD",
                   version |-> WidevineDeviceStructVersion,
                   type |-> TypeValue(self.type),
                   security_level |-> self.security_level,
                   flags |-> IF self.flags.send_key_control_nonce THEN 1 ELSE 0,
                   private_key |-> ExportKey(self.private_key),
                   client_id |-> SerializeClientIdentification(self.client_id),
                   vmp |-> SerializeFileHashes(self.vmp)]]

\* ghost.url_permitted: whether the caller has permitted loading from a URL;
\* ghost.loaded: the bytes the device was constructed from
BlobInit ==
    /\ cdmapi_supported = FALSE
    /\ device = None
    /\ session = NewSession(FALSE, FALSE)
    /\ last = [op |-> "init", res |-> "ok", arg |-> None, out |-> None, sent |-> << >>]
    /\ issued = FALSE
    /\ delegate = None
    /\ \E permit \in BOOLEAN : ghost = [url_permitted |-> permit, loaded |-> None]

\* device = LocalDevice.load(uri), once at startup
BlobLoad(uri) ==
    /\ last.op = "init"
    /\ LET r == LocalDevice_load(uri)
       IN  /\ device' = r.dev
           /\ ghost' = [ghost EXCEPT !.loaded = IF r.res = "ok" THEN uri.data ELSE None]
           /\ last' = [op |-> "load", res |-> r.res, arg |-> uri, out |-> None,
                       sent |-> r.sent]
    /\ UNCHANGED <<cdmapi_supported, session, issued, delegate>>

\* device.dumpb()
BlobDumpb ==
    /\ Truthy(device)
    /\ LET r == dumpb(device)
       IN  last' = [op |-> "dumpb", res |-> r.res, arg |-> None, out |-> r.out,
                    sent |-> << >>]
    /\ UNCHANGED <<cdmapi_supported, device, session, issued, delegate, ghost>>

BlobNext ==
    \/ \E uri \in Uris : BlobLoad(uri)
    \/ BlobDumpb

SpecBlob == BlobInit /\ [][BlobNext]_vars

\* ------------------------------------------- the round trip of a Remote call
\* the Remote operations that post a request to the service
RemoteOps == {"get_license_challenge", "parse_license", "exchange"}

\* delegate.answers: whether the endpoint ever answers a request;
\* ghost.pc: "waiting" while requests.post has not returned
CallInit ==
    /\ cdmapi_supported = FALSE
    /\ device = RemoteDevice_init(RemoteDescriptor)
    /\ session = [s \in Sids |-> SharedSession(s)]
    /\ last = [op |-> "init", sid |-> "", res |-> "ok", arg |-> None, out |-> None,
               sent |-> << >>]
    /\ issued = FALSE
    /\ \E up \in BOOLEAN : delegate = [content |-> << >>, answers |-> up]
    /\ ghost = [pc |-> "idle"]

\* a Remote operation on session s gets as far as requests.post, which is
\* called without a timeout and blocks until the endpoint answers
CallPost(op, s) ==
    /\ ghost.pc = "idle"
    /\ Len(delegate.content) < MaxApiSessions
    /\ Len(session[s].keys) + Len(session[Other(s)].keys) < MaxKeys
    /\ ghost' = [pc |-> "waiting"]
    /\ last' = [op |-> op, sid |-> s, res |-> "pending", arg |-> None, out |-> None,
                sent |-> << >>]
    /\ UNCHANGED <<cdmapi_supported, device, session, issued, delegate>>

\* the endpoint answers a get_license_challenge: requests.post returns and
\* the operation runs to its end
ChallengeReturn(answer) ==
    /\ ghost.pc = "waiting" /\ last.op = "get_license_challenge"
    /\ delegate.answers
    /\ LET r == remote_get_license_challenge(device, delegate, session[last.sid], answer)
       IN  /\ device' = r.self
           /\ delegate' = r.delegate
           /\ last' = [last EXCEPT !.res = r.res, !.out = r.out, !.sent = r.sent]
    /\ ghost' = [pc |-> "idle"]
    /\ UNCHANGED <<cdmapi_supported, session, issued>>

\* the endpoint answers a parse_license
ParseReturn(license_res, answer) ==
    /\ ghost.pc = "waiting" /\ last.op = "parse_license"
    /\ delegate.answers
    /\ LET r == remote_parse_license(device, delegate, session[last.sid], license_res, answer)
       IN  /\ session' = SessionWrite(session, last.sid, r.session)
           /\ delegate' = r.delegate
           /\ last' = [last EXCEPT !.res = r.res, !.sent = r.sent]
    /\ ghost' = [pc |-> "idle"]
    /\ UNCHANGED <<cdmapi_supported, device, issued>>

\* the endpoint answers an exchange
ExchangeReturn(license_res, enc_key_id, hmac_key_id, answer) ==
    /\ ghost.pc = "waiting" /\ last.op = "exchange"
    /\ delegate.answers
    /\ LET r == remote_exchange(device, delegate, session[last.sid], license_res,
                                enc_key_id, hmac_key_id, answer)
       IN  /\ delegate' = r.delegate
           /\ last' = [last EXCEPT !.res = r.res, !.out = r.out, !.sent = r.sent]
    /\ ghost' = [pc |-> "idle"]
    /\ UNCHANGED <<cdmapi_supported, device, session, issued>>

\* the answers of an endpoint that answers
Returned == Answers \ {"abandoned"}

CallNext ==
    \/ \E op \in RemoteOps, s \in Sids : CallPost(op, s)
    \/ \E answer \in Returned : ChallengeReturn(answer)
    \/ \E license_res \in RemoteResponses, answer \in Returned :
           ParseReturn(license_res, answer)
    \/ \E license_res \in RemoteResponses, k \in KeyIds, answer \in Returned :
           ExchangeReturn(license_res, k, k, answer)

\* a call whose answer has arrived does return
SpecCall == CallInit /\ [][CallNext]_vars /\ WF_vars(CallNext)

\* ------------------------------------------- the provisioning script, prv
\* Keybox.load(keybox_path): the fields of the keybox that prv reads
Keybox == [device_id |-> "kb-device-id", device_aes_key |-> "KBK",
           stable_id |-> "kb-stable-id", system_id |-> "4442"]

\* the nonces get_random_bytes(4) may draw
ProvisioningNonces == {"n1", "n2"}

\* yaml.safe_load of the config file next to the keybox: an empty file, a
\* complete config for either device type, one naming an unknown device
\* type and one without the client_info table
ConfigOf(device_type, security_level, send_key_control_nonce) ==
    [wvd |-> [security_level |-> security_level, device_type |-> device_type,
              send_key_control_nonce |-> send_key_control_nonce],
     client_info |-> [company_name |-> "motorola", model_name |-> "Nexus 6"],
     capabilities |-> [session_token |-> 1]]
ConfigSansInfo ==
    [wvd |-> [security_level |-> 1, device_type |-> "android",
              send_key_control_nonce |-> TRUE],
     capabilities |-> [session_token |-> 1]]
Configs ==
    {None, ConfigOf("android", 1, TRUE), ConfigOf("chrome", 3, FALSE),
     ConfigOf("ios", 1, TRUE), ConfigSansInfo}

\* the ProvisioningRequest prv builds, as the bytes SerializeToString gives
ProvisioningRequestOf(keybox, nonce) ==
    [client_id |-> [Type |-> "KEYBOX", Token |-> keybox.device_id],
     nonce |-> nonce,
     options |-> [certificate_type |-> "WIDEVINE_DRM", certificate_authority |-> ""]]

\* the SignedProvisioningMessage around it, signed under auth_2
SignedProvisioningRequest(request, keys) ==
    [message |-> request,
     signature |-> HmacSha256(keys.auth_2, request),
     protocol_version |-> "VERSION_2_0"]

\* base64.urlsafe_b64encode(b).rstrip(b"=").decode() and urlsafe_b64decode
UrlsafeB64Encode(b) == [b64url |-> b]
UrlsafeB64Decode(t) == t.b64url

\* requests.session() as prv configures it: a proxy switches trust_env off,
\* without a user agent the default User-Agent header is removed
RequestsSession(proxy, user_agent) ==
    [trust_env |-> (proxy = "NONE"),
     proxies |-> IF proxy = "NONE" THEN << >> ELSE <<proxy>>,
     user_agent |-> IF user_agent = "NONE" THEN << >> ELSE <<user_agent>>]
Proxies == {"NONE", "socks5://proxy"}
UserAgents == {"NONE", "okhttp"}

\* the kind of a provisioning response
ProvisioningKind == "certificateprovisioning#certificateProvisioningResponse"

\* the SignedProvisioningMessages a server may answer a request with: the
\* response carries the nonce of this or of another request, the device RSA
\* key (or no bytes) encrypted under enc with or without valid padding, and
\* a signature under auth_1 or under another key
SignedResponses(request, keys) ==
    { [message |-> [nonce |-> n, device_certificate |-> "DRMCERT",
                    device_rsa_key |-> [aes |-> keys.enc, iv |-> "iv",
                                        plain |-> p, padded |-> pad],
                    device_rsa_key_iv |-> "iv"],
       signature |-> HmacSha256(signer,
                        [nonce |-> n, device_certificate |-> "DRMCERT",
                         device_rsa_key |-> [aes |-> keys.enc, iv |-> "iv",
                                             plain |-> p, padded |-> pad],
                         device_rsa_key_iv |-> "iv"])] :
        n \in ProvisioningNonces, p \in {"DK", EmptyBytes}, pad \in BOOLEAN,
        signer \in {keys.auth_1, keys.auth_2} }

\* what session.post(...).json() returns: an error object, an object of
\* another kind, or a provisioning response
ServerAnswers(request, keys) ==
    {[error |-> "backendError"], [kind |-> "other"]}
    \cup {[kind |-> ProvisioningKind, signedResponse |-> UrlsafeB64Encode(r)] :
             r \in SignedResponses(request, keys)}

\* response_signature_computed == signed_response.signature
SignatureCorrect(auth_1_key, signed_response) ==
    HmacSha256(auth_1_key, signed_response.message) = signed_response.signature

\* the check that passes whatever nonce the response carries
NonceMatches_unchecked(provisioning_response, nonce) == TRUE

\* provisioning_response.nonce == nonce
NonceMatches(provisioning_response, nonce) ==
    provisioning_response.nonce = nonce

\* the ClientIdentificationRaw built from the response and the config, and
\* its SerializeToString
ClientIdentificationRawOf(provisioning_response, config, keybox) ==
    [Type |-> "DEVICE_CERTIFICATE",
     Token |-> provisioning_response.device_certificate,
     ClientInfo |-> [company_name |-> config.client_info.company_name,
                     model_name |-> config.client_info.model_name,
                     device_id |-> keybox.stable_id],
     ClientCapabilities |-> [SessionToken |-> config.capabilities.session_token]]
SerializeClientIdentificationRaw(ci) == "CID:" \o ci.Token

\* out_path: the keybox path without extension, then _l<level>_<system id>.wvd
OutPath(config, keybox) ==
    [stem |-> "keybox", security_level |-> config.wvd.security_level,
     system_id |-> keybox.system_id, ext |-> "wvd"]

\* LocalDevice.Types[name.upper()]: the member, or KeyError
DeviceTypes == {"chrome", "android"}
TypeOf(device_type) == IF device_type = "chrome" THEN "CHROME" ELSE "ANDROID"

\* LocalDevice(type=, security_level=, flags=, private_key=, client_id=,
\* vmp=None): system_id is swallowed by **__
ProvisionedDevice(config, device_rsa_key, ci) ==
    LET r == LocalDevice_init([private_key |-> device_rsa_key,
                               client_id |-> SerializeClientIdentificationRaw(ci),
                               vmp |-> EmptyBytes,
                               send_key_control_nonce |->
                                   config.wvd.send_key_control_nonce])
    IN  IF config.wvd.device_type \notin DeviceTypes
        THEN [res |-> "KeyError", dev |-> None]
        ELSE IF r.res # "ok" THEN [res |-> r.res, dev |-> None]
        ELSE [res |-> "ok",
              dev |-> [type |-> TypeOf(config.wvd.device_type),
                       security_level |-> config.wvd.security_level,
                       flags |-> r.dev.flags, private_key |-> r.dev.private_key,
                       client_id |-> r.dev.client_id, vmp |-> r.dev.vmp]]

\* LocalDevice.dump(path): open(path, "wb") creates the file, then dumpb()
\* runs; when it raises the file stays as open left it, without a byte
DumpedFile(path, self) ==
    [path |-> path, data |-> IF dumpb(self).res = "ok" THEN dumpb(self).out ELSE None]

\* ghost.pc: the position of the run; ghost.files: the files it has written;
\* the other ghost fields are the locals of prv of the same name
PrvLocals ==
    [pc |-> "init", config |-> None, nonce |-> "NONE", keys |-> None,
     signed_response |-> None, provisioning_response |-> None, ci |-> None,
     device_rsa_key |-> "NONE", files |-> {}]

PrvInit ==
    /\ cdmapi_supported = FALSE
    /\ device = None
    /\ session = None
    /\ last = [op |-> "init", res |-> "ok"]
    /\ issued = None
    /\ delegate = None
    /\ ghost = PrvLocals

\* the run ends at this step with an exception or log.exit
PrvExit(op, res) ==
    /\ ghost' = [ghost EXCEPT !.pc = "exited"]
    /\ last' = [op |-> op, res |-> res]

\* prv is entered: click hands the argument over as keybox=, which prv,
\* taking keybox_path, refuses; a direct call of the callback enters it
PrvInvoke(how) ==
    /\ ghost.pc = "init"
    /\ IF how = "cli"
       THEN PrvExit("invoke", "TypeError")
       ELSE /\ ghost' = [ghost EXCEPT !.pc = "entered"]
            /\ last' = [op |-> "invoke", res |-> "ok"]
    /\ UNCHANGED <<cdmapi_supported, device, session, issued, delegate>>

\* the keybox and its config are found and loaded
PrvLoad(keybox_is_file, config_is_file, config) ==
    /\ ghost.pc = "entered"
    /\ IF ~keybox_is_file THEN PrvExit("load", "NoKeybox")
       ELSE IF ~config_is_file THEN PrvExit("load", "NoConfig")
       ELSE IF ~Truthy(config) THEN PrvExit("load", "EmptyConfig")
       ELSE /\ ghost' = [ghost EXCEPT !.pc = "loaded", !.config = config]
            /\ last' = [op |-> "load", res |-> "ok"]
    /\ UNCHANGED <<cdmapi_supported, device, session, issued, delegate>>

\* the request is built, the keys derived from it, the request signed and
\* the requests session prepared
PrvRequest(nonce, proxy, user_agent) ==
    /\ ghost.pc = "loaded"
    /\ ghost' = [ghost EXCEPT
                   !.pc = "posting", !.nonce = nonce,
                   !.keys = generate_derived_keys(ProvisioningRequestOf(Keybox, nonce),
                                                  Keybox.device_aes_key)]
    /\ issued' = UrlsafeB64Encode(
                     SignedProvisioningRequest(
                         ProvisioningRequestOf(Keybox, nonce),
                         generate_derived_keys(ProvisioningRequestOf(Keybox, nonce),
                                               Keybox.device_aes_key)))
    /\ session' = RequestsSession(proxy, user_agent)
    /\ last' = [op |-> "request", res |-> "ok"]
    /\ UNCHANGED <<cdmapi_supported, device, delegate>>

\* session.post(...).json() and the checks of its "error" and "kind", then
\* the signed response is decoded
PrvPost(answer) ==
    /\ ghost.pc = "posting"
    /\ delegate' = answer
    /\ IF "error" \in DOMAIN answer THEN PrvExit("post", "ServerError")
       ELSE IF answer.kind # ProvisioningKind THEN PrvExit("post", "UnexpectedKind")
       ELSE /\ ghost' = [ghost EXCEPT
                           !.pc = "answered",
                           !.signed_response = UrlsafeB64Decode(answer.signedResponse)]
            /\ last' = [op |-> "post", res |-> "ok"]
    /\ UNCHANGED <<cdmapi_supported, device, session, issued>>

\* the signature of the response is compared with the HMAC under auth_1
PrvCheckSignature ==
    /\ ghost.pc = "answered"
    /\ IF ~SignatureCorrect(ghost.keys.auth_1, ghost.signed_response)
       THEN PrvExit("check_signature", "SignatureIncorrect")
       ELSE /\ ghost' = [ghost EXCEPT
                           !.pc = "signature_ok",
                           !.provisioning_response = ghost.signed_response.message]
            /\ last' = [op |-> "check_signature", res |-> "ok"]
    /\ UNCHANGED <<cdmapi_supported, device, session, issued, delegate>>

\* the nonce of the response is compared with the nonce of the request
PrvCheckNonce ==
    /\ ghost.pc = "signature_ok"
    /\ IF ~NonceMatches(ghost.provisioning_response, ghost.nonce)
       THEN PrvExit("check_nonce", "NonceMismatch")
       ELSE /\ ghost' = [ghost EXCEPT !.pc = "nonce_ok"]
            /\ last' = [op |-> "check_nonce", res |-> "ok"]
    /\ UNCHANGED <<cdmapi_supported, device, session, issued, delegate>>

\* the client identification is put together from response and config
PrvClientId ==
    /\ ghost.pc = "nonce_ok"
    /\ IF "client_info" \notin DOMAIN ghost.config
       THEN PrvExit("client_id", "KeyError")
       ELSE /\ ghost' = [ghost EXCEPT
                           !.pc = "identified",
                           !.ci = ClientIdentificationRawOf(ghost.provisioning_response,
                                                            ghost.config, Keybox)]
            /\ last' = [op |-> "client_id", res |-> "ok"]
    /\ UNCHANGED <<cdmapi_supported, device, session, issued, delegate>>

\* the device RSA key is decrypted under enc and unpadded
PrvDecrypt ==
    /\ ghost.pc = "identified"
    /\ IF ~AesCbcUnpad(ghost.keys.enc, ghost.provisioning_response.device_rsa_key_iv,
                       ghost.provisioning_response.device_rsa_key).ok
       THEN PrvExit("decrypt", "ValueError")
       ELSE /\ ghost' = [ghost EXCEPT
                           !.pc = "decrypted",
                           !.device_rsa_key =
                               AesCbcUnpad(ghost.keys.enc,
                                           ghost.provisioning_response.device_rsa_key_iv,
                                           ghost.provisioning_response.device_rsa_key).plain]
            /\ last' = [op |-> "decrypt", res |-> "ok"]
    /\ UNCHANGED <<cdmapi_supported, device, session, issued, delegate>>

\* the LocalDevice is constructed and dumped to out_path
PrvDump ==
    /\ ghost.pc = "decrypted"
    /\ IF ProvisionedDevice(ghost.config, ghost.device_rsa_key, ghost.ci).res # "ok"
       THEN /\ PrvExit("dump", ProvisionedDevice(ghost.config, ghost.device_rsa_key,
                                                 ghost.ci).res)
            /\ UNCHANGED device
       ELSE /\ device' = ProvisionedDevice(ghost.config, ghost.device_rsa_key,
                                           ghost.ci).dev
            /\ ghost' = [ghost EXCEPT
                           !.pc = IF dumpb(device').res = "ok" THEN "done" ELSE "exited",
                           !.files = {DumpedFile(OutPath(ghost.config, Keybox), device')}]
            /\ last' = [op |-> "dump", res |-> dumpb(device').res]
    /\ UNCHANGED <<cdmapi_supported, session, issued, delegate>>

\* the answers the server may give to the request that was posted
PostAnswers ==
    IF ghost.pc = "posting"
    THEN ServerAnswers(ProvisioningRequestOf(Keybox, ghost.nonce), ghost.keys)
    ELSE {}

PrvNext ==
    \/ \E how \in {"cli", "callback"} : PrvInvoke(how)
    \/ \E keybox_is_file, config_is_file \in BOOLEAN, config \in Configs :
           PrvLoad(keybox_is_file, config_is_file, config)
    \/ \E nonce \in ProvisioningNonces, proxy \in Proxies, user_agent \in UserAgents :
           PrvRequest(nonce, proxy, user_agent)
    \/ \E answer \in PostAnswers : PrvPost(answer)
    \/ PrvCheckSignature
    \/ PrvCheckNonce
    \/ PrvClientId
    \/ PrvDecrypt
    \/ PrvDump

SpecProvision == PrvInit /\ [][PrvNext]_vars

\* ------------------------------------------------------------------ claims
\* the terms the caller's harness derives from a pending request
Unwrappable(license_res) ==
    license_res.decodable
    /\ license_res.SessionKey.oaep =
         (IF Truthy(device.private_key) THEN device.private_key ELSE CdmapiKey)


\* the response is the one a server builds for this request with n >= 1
\* well-formed key containers
MatchingResponse(license_res, request) ==
    \E sk \in SessionKeys, k \in Licenses :
        /\ Len(k) >= 1
        /\ \A i \in 1..Len(k) : k[i] \in WellFormedKinds
        /\ license_res = FakeServer(request, sk, k)

\* keys is old followed by exactly n further records
GrownBy(keys, old, n) ==
    /\ Len(keys) = Len(old) + n
    /\ SubSeq(keys, 1, Len(old)) = old

\* C1: get_license_challenge followed immediately by parse_license of the
\* response a server builds for that challenge, with n >= 1 well-formed key
\* containers, succeeds and leaves exactly n new Key records on the session
C1_MatchingResponseYieldsKeys ==
    [][(/\ last.op = "get_license_challenge" /\ last.res = "ok"
        /\ last'.op = "parse_license"
        /\ MatchingResponse(last'.arg, last.out))
       => (/\ last'.res = "ok"
           /\ GrownBy(session'.keys, session.keys, Len(last'.arg.Msg.Key)))]_vars

C1_Witness ==
    /\ last.op = "parse_license" /\ last.res = "ok"
    /\ MatchingResponse(last.arg, session.license_request)
    /\ Len(last.arg.Msg.Key) = 2
    /\ Len(session.keys) = 2

\* the HMAC-SHA256 a server would carry for this message under the auth_1
\* of the pending request differs from the signature of the response
SignatureDiffers(license_res) ==
    /\ Truthy(session.license_request)
    /\ Unwrappable(license_res)
    /\ HmacSha256(generate_derived_keys(session.license_request.Msg,
                                        license_res.SessionKey.plain).auth_1,
                  license_res.Msg) # license_res.Signature

\* C2: when the HMAC of the response's message under auth_1 differs from the
\* carried signature, parse_license fails with SignatureMismatch and
\* session.keys is what it was before the call
C2_SignatureMismatchAddsNoKey ==
    [][(last'.op = "parse_license" /\ SignatureDiffers(last'.arg))
       => (last'.res = "SignatureMismatch" /\ session'.keys = session.keys)]_vars

C2_Witness ==
    /\ last.op = "parse_license" /\ last.res = "SignatureMismatch"
    /\ Len(last.arg.Msg.Key) >= 1
    /\ last.arg.Signature = [flipped |-> HmacSha256(session.derived_keys.auth_1, last.arg.Msg)]
    /\ session.keys = << >>

\* C3: a parse_license call that fails leaves session_key and derived_keys
\* as they were before the call
C3_FailedParseKeepsSessionKey ==
    [][(last'.op = "parse_license" /\ last'.res # "ok")
       => (/\ session'.session_key = session.session_key
           /\ session'.derived_keys = session.derived_keys)]_vars

\* C4: parse_license either appends one Key per container of the response
\* and succeeds, or fails and appends none
C4_KeysAllOrNothing ==
    [][(last'.op = "parse_license")
       => \/ (last'.res = "ok"
                /\ GrownBy(session'.keys, session.keys, Len(last'.arg.Msg.Key)))
          \/ (last'.res # "ok" /\ session'.keys = session.keys)]_vars

\* C5: parse_license on a session for which no get_license_challenge has
\* completed fails with NoPendingRequest whatever the response is, and
\* leaves the session as it was, with keys, session_key and derived_keys unset
C5_ParseBeforeChallenge ==
    [][(last'.op = "parse_license" /\ ~issued)
       => (/\ last'.res = "NoPendingRequest"
           /\ session' = session
           /\ session'.keys = << >>
           /\ session'.session_key = "NONE"
           /\ DOMAIN session'.derived_keys = {})]_vars

C5_Witness ==
    /\ last.op = "parse_license" /\ last.res = "NoPendingRequest"
    /\ ~issued
    /\ last.arg.decodable /\ Len(last.arg.Msg.Key) >= 1

\* C6: once a pending request is stored, no operation on the session changes
\* it before a parse_license consumes it
C6_PendingRequestNeverRebuilt ==
    [][(Truthy(session.license_request)
          /\ ~(last'.op = "parse_license" /\ last'.res = "ok"))
       => session'.license_request = session.license_request]_vars

\* C7: a challenge carries the encrypted client identification, with the
\* certificate's service id and serial number, exactly when the session is
\* in privacy mode, and the plaintext client identification exactly otherwise
C7_OneClientIdentification ==
    (last.op = "get_license_challenge" /\ last.res = "ok")
    => LET msg == last.out.Msg
       IN  /\ (msg.ClientId # None) # (msg.EncryptedClientId # None)
           /\ (msg.EncryptedClientId # None) <=> session.privacy_mode
           /\ msg.ClientId # None => msg.ClientId = device.client_id
           /\ msg.EncryptedClientId # None =>
                /\ msg.EncryptedClientId.ServiceId = session.signed_device_certificate.ServiceId
                /\ msg.EncryptedClientId.ServiceCertificateSerialNumber
                     = session.signed_device_certificate.SerialNumber

C7_Witness ==
    /\ last.op = "get_license_challenge" /\ last.res = "ok"
    /\ session.privacy_mode
    /\ last.out.Msg.EncryptedClientId # None
    /\ last.out.Msg.ClientId = None

\* C8: set_service_certificate on bytes whose outer wrapper or inner device
\* certificate does not decode fails with MalformedCertificate and leaves
\* privacy_mode and signed_device_certificate unchanged; on decodable bytes
\* it succeeds, stores the certificate and sets privacy_mode
C8_ServiceCertificate ==
    /\ []((last.op = "set_service_certificate" /\ last.arg.outer /\ last.arg.inner)
          => (/\ last.res = "ok"
              /\ session.privacy_mode
              /\ session.signed_device_certificate = SignedDeviceCertificate(last.arg)))
    /\ [][(last'.op = "set_service_certificate" /\ ~(last'.arg.outer /\ last'.arg.inner))
          => (/\ last'.res = "MalformedCertificate"
              /\ session'.privacy_mode = session.privacy_mode
              /\ session'.signed_device_certificate = session.signed_device_certificate)]_vars

C8_Witness ==
    /\ last.op = "set_service_certificate" /\ last.res = "MalformedCertificate"
    /\ last.arg.outer /\ ~last.arg.inner
    /\ ~session.privacy_mode
    /\ session.signed_device_certificate = None

\* C9: get_license_challenge on a device with neither a private key nor
\* cdmapi fails with MissingSigningCapability, returns nothing and leaves
\* the pending request unchanged
C9_NoSigningCapability ==
    [][(/\ last'.op = "get_license_challenge"
        /\ ~Truthy(device.private_key) /\ ~cdmapi_supported)
       => (/\ last'.res = "MissingSigningCapability"
           /\ last'.out = None
           /\ session'.license_request = session.license_request)]_vars

C9_Witness ==
    /\ last.op = "get_license_challenge" /\ last.res = "MissingSigningCapability"
    /\ Truthy(device) /\ device.private_key = None /\ ~cdmapi_supported
    /\ session.license_request = None

\* C10: get_license_challenge on a device whose client identification is
\* absent (client_id of length 0) fails with MissingIdentity
C10_NoChallengeWithoutIdentity ==
    (last.op = "get_license_challenge" /\ device.client_id.cid = "")
    => last.res = "MissingIdentity"


\* C16: parse_license of bytes that do not decode as a SignedLicense, on a
\* session with a pending request, fails with MalformedResponse and leaves
\* the whole session unchanged; a parse_license of a genuine response to the
\* same challenge right after it succeeds
C16_MalformedResponseChangesNothing ==
    /\ [][(last'.op = "parse_license" /\ Truthy(session.license_request)
             /\ ~last'.arg.decodable)
          => (last'.res = "MalformedResponse" /\ session' = session)]_vars
    /\ [][(/\ last.op = "parse_license" /\ last.res = "MalformedResponse"
           /\ last'.op = "parse_license"
           /\ MatchingResponse(last'.arg, session.license_request))
          => (/\ last'.res = "ok"
              /\ GrownBy(session'.keys, session.keys, Len(last'.arg.Msg.Key)))]_vars

C16_Witness ==
    /\ last.op = "parse_license" /\ last.res = "MalformedResponse"
    /\ ~last.arg.decodable
    /\ Truthy(session.license_request)
    /\ session.signed_license = None /\ session.session_key = "NONE"
    /\ session.keys = << >>

\* C20: a challenge carries a key-control nonce exactly when the device's
\* send_key_control_nonce flag is true (no nonce when the device has no
\* flags at all), and a nonce n that is present satisfies 1 <= n < 2^31
C20_NonceIffFlag ==
    /\ (last.op = "get_license_challenge" /\ last.res = "ok")
       => LET nonce == last.out.Msg.KeyControlNonce
          IN  /\ (nonce # {}) <=> device.flags.send_key_control_nonce
              /\ Cardinality(nonce) <= 1
              \* n < 2^31, written on 32-bit integers
              /\ \A n \in nonce : 1 <= n /\ n - 1 < 2147483647
    /\ Truthy(device)
       => \A time \in Times, rnd \in Randoms :
             LicenseRequestMsg([device EXCEPT !.flags = None], session, time, rnd)
                 .KeyControlNonce = {}

C20_Witness ==
    /\ last.op = "get_license_challenge" /\ last.res = "ok"
    /\ device.flags.send_key_control_nonce
    /\ last.out.Msg.KeyControlNonce = {2147483647}


\* the operations of the license protocol engine
EngineOps == {"set_service_certificate", "get_license_challenge", "parse_license", "exchange"}

\* C11: no call of set_service_certificate, get_license_challenge,
\* parse_license or exchange changes any field of the device object, Local
\* or Remote
C11_DeviceReadOnly ==
    [][last'.op \in EngineOps => device' = device]_vars

\* C12: on a Remote device shared by two sessions, the API session id that
\* parse_license or exchange sends for a session is the one the service
\* returned for that session's own get_license_challenge
C12_OwnApiSessionIdSent ==
    (/\ IsRemote(device)
     /\ last.op \in {"parse_license", "exchange"}
     /\ ghost.own[last.sid] # {})
    => \A i \in 1..Len(last.sent) : last.sent[i].params.session_id = ghost.own[last.sid]

\* C13: on a Remote device, parse_license on a session for which no
\* get_license_challenge has completed fails with NoPendingRequest, posts
\* nothing to the service and adds no keys
C13_RemoteNoPendingRequest ==
    [][(/\ IsRemote(device)
        /\ last'.op = "parse_license"
        /\ ghost.own[last'.sid] = {})
       => (/\ last'.res = "NoPendingRequest"
           /\ last'.sent = << >>
           /\ session' = session)]_vars

\* C17: a Remote call that fails or is abandoned commits nothing: the
\* session's keys and the stored API session id are as before the call
C17_FailedRemoteCallCommitsNothing ==
    [][(/\ IsRemote(device)
        /\ last'.op \in {"get_license_challenge", "parse_license", "exchange"}
        /\ last'.res # "ok")
       => (/\ session'[last'.sid].keys = session[last'.sid].keys
           /\ device'.api_session_id = device.api_session_id)]_vars

C19_CertificateIffPrivacy ==
    /\ [](\A s \in Sids :
            (session[s].signed_device_certificate # None) <=> session[s].privacy_mode)
    /\ [][\A s \in Sids : session[s].privacy_mode => session'[s].privacy_mode]_vars

C19_Witness ==
    /\ IsRemote(device)
    /\ last.op = "set_service_certificate" /\ last.sid = "A"
    /\ last.arg = [bytes |-> "cert"]
    /\ session["A"].privacy_mode
    /\ session["A"].signed_device_certificate = B64Encode("cert")
    /\ ~session["B"].privacy_mode /\ session["B"].signed_device_certificate = None


\* the fields of the device file that the round trip is to keep
RoundTripFields == {"version", "type", "security_level", "flags", "private_key", "client_id"}

\* C14: for a valid device blob b, dumpb(load(b)) has the same version,
\* type, security_level, flags, private_key and client_id fields as b, with
\* or without a VMP block and whatever the version byte
C14_RoundTrip ==
    (last.op = "dumpb" /\ last.res = "ok")
    => \A f \in RoundTripFields : last.out[f] = ghost.loaded[f]

\* C15: given a string that is a URL and no permission to load from a URL,
\* load does not issue a request
C15_NoFetchWithoutPermission ==
    (last.op = "load" /\ last.arg.kind = "url" /\ ~ghost.url_permitted)
    => last.sent = << >>


\* C21: session.keys is append-only and empty until a parse succeeds: no
\* step removes or reorders an entry, only parse_license adds entries, the
\* first entries arrive with a parse_license that succeeds, and one
\* parse_license adds its entries after the earlier ones in the order of the
\* response's key containers
C21_KeysAppendOnly ==
    [][/\ Len(session'.keys) >= Len(session.keys)
       /\ SubSeq(session'.keys, 1, Len(session.keys)) = session.keys
       /\ (session'.keys # session.keys => last'.op = "parse_license")
       /\ ((session.keys = << >> /\ session'.keys # << >>) => last'.res = "ok")
       /\ ((last'.op = "parse_license" /\ last'.res = "ok")
              => /\ Len(session'.keys) = Len(session.keys) + Len(last'.arg.Msg.Key)
                 /\ \A i \in 1..Len(last'.arg.Msg.Key) :
                       session'.keys[Len(session.keys) + i].key
                           = last'.arg.Msg.Key[i].Key.plain)]_vars


\* C22: in every reachable state derived_keys is empty or holds exactly enc
\* (16 bytes), auth_1 (32 bytes) and auth_2 (32 bytes), also after a failed
\* parse_license
C22_DerivedKeysAllOrNone ==
    \/ DOMAIN session.derived_keys = {}
    \/ /\ DOMAIN session.derived_keys = {"enc", "auth_1", "auth_2"}
       /\ ByteLen(session.derived_keys.enc) = 16
       /\ ByteLen(session.derived_keys.auth_1) = 32
       /\ ByteLen(session.derived_keys.auth_2) = 32

C22_Witness ==
    /\ last.op = "parse_license" /\ last.res = "SignatureMismatch"
    /\ DOMAIN session.derived_keys = {"enc", "auth_1", "auth_2"}
    /\ session.keys = << >>


\* C23: the keys parse_license derives are those of the reference derivation
\* generate_derived_keys(msg, key), with msg the inner message of the
\* pending request and key the session key unwrapped from the response
C23_DerivedKeysMatchReference ==
    [][(/\ last'.op = "parse_license"
        /\ Truthy(session.license_request)
        /\ Unwrappable(last'.arg))
       => LET ref == generate_derived_keys(session.license_request.Msg,
                                           last'.arg.SessionKey.plain)
          IN  /\ session'.session_key = last'.arg.SessionKey.plain
              /\ session'.derived_keys.enc = ref.enc
              /\ session'.derived_keys.auth_1 = ref.auth_1
              /\ session'.derived_keys.auth_2 = ref.auth_2]_vars

C23_Witness ==
    /\ last.op = "parse_license" /\ last.res = "ok"
    /\ Len(session.keys) >= 1
    /\ session.session_key = "SK1"
    /\ session.derived_keys.auth_2 =
         generate_derived_keys(session.license_request.Msg, "SK1").auth_2
    /\ session.license_request.Msg # session.license_request


C25_KeyIdAndType ==
    [][last'.op = "parse_license"
       => \A i \in 1..(Len(session'.keys) - Len(session.keys)) :
            LET container == last'.arg.Msg.Key[i]
                appended == session'.keys[Len(session.keys) + i]
            IN  /\ appended.key_type = container.Type
                /\ appended.kid = IF container.Id # EmptyBytes
                                  THEN container.Id
                                  ELSE Utf8Encode(container.Type)]_vars

C25_Witness ==
    /\ last.op = "parse_license" /\ last.res = "ok"
    /\ Len(session.keys) = 2
    /\ session.keys[1].kid = "utf8:OPERATOR_SESSION"
    /\ session.keys[1].key_type = "OPERATOR_SESSION"
    /\ session.keys[2].kid = "kid1" /\ session.keys[2].key_type = "CONTENT"


\* the names in a permissions list
NamesIn(permissions) == {permissions[j] : j \in 1..Len(permissions)}

\* C26: for every Key in session.keys, permissions is non-empty only if the
\* key's type is OPERATOR_SESSION, and the permissions of such a key are
\* exactly the names of the container's permission fields that are true
C26_PermissionsOfOperatorKeys ==
    /\ [](\A j \in 1..Len(session.keys) :
            session.keys[j].permissions # << >>
                => session.keys[j].key_type = "OPERATOR_SESSION")
    /\ [][last'.op = "parse_license"
          => \A i \in 1..(Len(session'.keys) - Len(session.keys)) :
               LET container == last'.arg.Msg.Key[i]
                   appended == session'.keys[Len(session.keys) + i]
                   granted == {f \in DOMAIN container.OperatorSessionKeyPermissions :
                                  container.OperatorSessionKeyPermissions[f]}
               IN  container.Type = "OPERATOR_SESSION"
                   => /\ NamesIn(appended.permissions) = granted
                      /\ Len(appended.permissions) = Cardinality(granted)]_vars

C26_Witness ==
    /\ last.op = "parse_license" /\ last.res = "ok"
    /\ Len(session.keys) = 2
    /\ session.keys[1].key_type = "OPERATOR_SESSION"
    /\ session.keys[1].permissions = <<"AllowDecrypt">>
    /\ session.keys[2].key_type = "CONTENT"
    /\ last.arg.Msg.Key[2].OperatorSessionKeyPermissions.AllowEncrypt
    /\ session.keys[2].permissions = << >>


\* C27: on a Remote device set_service_certificate returns true for any
\* certificate, sets privacy_mode and stores the certificate in transport
\* encoding (bytes base64-encoded, a str unchanged), and get_license_challenge
\* forwards the value stored on the session to the service
C27_CertificateForwarded ==
    /\ [][(IsRemote(device) /\ last'.op = "set_service_certificate")
          => /\ last'.res = "ok"
             /\ session'[last'.sid].privacy_mode
             /\ session'[last'.sid].signed_device_certificate
                  = IF "bytes" \in DOMAIN last'.arg
                    THEN [b64 |-> last'.arg.bytes]
                    ELSE last'.arg]_vars
    /\ [][(IsRemote(device) /\ last'.op = "get_license_challenge")
          => /\ Len(last'.sent) = 1
             /\ last'.sent[1].method = "GetChallenge"
             /\ last'.sent[1].params.cert
                  = session[last'.sid].signed_device_certificate]_vars

C27_Witness ==
    /\ IsRemote(device)
    /\ last.op = "get_license_challenge" /\ last.res = "ok" /\ last.sid = "B"
    /\ session["B"].privacy_mode
    /\ session["B"].signed_device_certificate = [b64 |-> "cert"]
    /\ last.sent[1].params.cert = [b64 |-> "cert"]
    /\ session["A"].signed_device_certificate = None


\* C28: every Remote operation eventually completes, by returning or by
\* failing, even when the endpoint never answers
C28_RemoteCallCompletes ==
    (ghost.pc = "waiting") ~> (ghost.pc = "idle")


\* a session with the two fields set_service_certificate may write blanked
SansCertificate(sess) ==
    [sess EXCEPT !.privacy_mode = FALSE, !.signed_device_certificate = None]

\* C29: set_service_certificate changes only privacy_mode and
\* signed_device_certificate of the session it is called on, and a
\* certificate applied after a challenge was issued leaves the parsing of
\* that challenge's response as it is: the response parses and adds its keys
C29_CertificateLeavesRequest ==
    /\ [][last'.op = "set_service_certificate"
          => \A s \in Sids : SansCertificate(session'[s]) = SansCertificate(session[s])]_vars
    /\ [][(/\ ~IsRemote(device)
           /\ last.op = "set_service_certificate" /\ last.res = "ok"
           /\ last'.op = "parse_license" /\ last'.sid = last.sid
           /\ Truthy(session[last.sid].license_request)
           /\ last'.arg = FakeServer(session[last.sid].license_request, "SK1", <<"content">>))
          => (/\ last'.res = "ok"
              /\ GrownBy(session'[last.sid].keys, session[last.sid].keys, 1))]_vars

C29_Witness ==
    /\ ~IsRemote(device)
    /\ last.op = "parse_license" /\ last.res = "ok" /\ last.sid = "A"
    /\ session["A"].privacy_mode
    /\ session["A"].license_request.Msg.ClientId # None
    /\ session["A"].license_request.Msg.EncryptedClientId = None
    /\ last.arg = FakeServer(session["A"].license_request, "SK1", <<"content">>)
    /\ Len(session["A"].keys) = 1

\* the request prv posted and the signed response the server answered with,
\* as the caller's harness sees them on the wire
PostedRequest == UrlsafeB64Decode(issued).message
AnsweredResponse == UrlsafeB64Decode(delegate.signedResponse)
Answered == "signedResponse" \in DOMAIN delegate
ReferenceSignature ==
    HmacSha256(generate_derived_keys(PostedRequest, Keybox.device_aes_key).auth_1,
               AnsweredResponse.message)

\* C30: prv writes a device file only after both checks of the server's
\* answer have passed, the signature (HMAC-SHA256 of the response message
\* under auth_1) first and the nonce second: a file exists only when both
\* hold, a response with a wrong signature ends the run at the signature
\* check whatever its nonce, a response with the right signature and
\* another nonce ends it at the nonce check, and neither leaves a file
C30_FileOnlyAfterChecks ==
    /\ ghost.files # {}
         => (/\ Answered
             /\ AnsweredResponse.signature = ReferenceSignature
             /\ AnsweredResponse.message.nonce = PostedRequest.nonce)
    /\ (Answered /\ ghost.pc \notin {"posting", "answered"}
          /\ AnsweredResponse.signature # ReferenceSignature)
         => (/\ last = [op |-> "check_signature", res |-> "SignatureIncorrect"]
             /\ ghost.files = {})
    /\ (Answered /\ ghost.pc \notin {"posting", "answered", "signature_ok"}
          /\ AnsweredResponse.signature = ReferenceSignature
          /\ AnsweredResponse.message.nonce # PostedRequest.nonce)
         => (/\ last = [op |-> "check_nonce", res |-> "NonceMismatch"]
             /\ ghost.files = {})
\* a run that wrote the device file after a response that passed both checks
C30_Witness ==
    /\ ghost.pc = "done"
    /\ last = [op |-> "dump", res |-> "ok"]
    /\ \E f \in ghost.files : f.data # None /\ f.data.private_key = "DK"
    /\ AnsweredResponse.signature = ReferenceSignature
    /\ AnsweredResponse.message.nonce = PostedRequest.nonce

====
